---------------------------- MODULE Spec2Model ----------------------------
(***************************************************************************)
(* A model of PicoOSC (src/PicoOSC-fork/PicoOSC.hpp): the OSC message      *)
(* builder, the bundle builder, the zero-copy message view, the address    *)
(* pattern matcher and the bundle dispatcher of the OSC server.            *)
(*                                                                         *)
(* Conventions.                                                            *)
(*  - A byte is a number in 0..255; a C string is a sequence of non-zero   *)
(*    bytes (its terminating NUL is implicit in the argument, explicit in  *)
(*    every buffer).                                                       *)
(*  - A buffer is a sequence of bytes; C's buffer[k] is buffer[k + 1].     *)
(*  - A char array member that clear() zeroes is the sequence of its bytes *)
(*    up to the highest index written so far; the bytes beyond are zero.   *)
(*  - A 32-bit (64-bit) object is the tuple of its 4 (8) bytes in memory   *)
(*    order. The host is little-endian (line 28), so the first byte is the *)
(*    least significant one.                                               *)
(*  - A std::size_t is 32 bits wide (the RP2040); a value u of that type   *)
(*    is held as the integer with the same 32-bit pattern, u for           *)
(*    u < 2^31 and u - 2^32 otherwise.                                     *)
(*                                                                         *)
(* Specifications.  Spec: the OSCMessage builder, build(), parse() of the  *)
(* bytes built, and addMessage().  SpecParse: parse() of arbitrary bytes.  *)
(* SpecMatch: matchAddress() and matchPattern().  SpecBundle: OSCBundle    *)
(* and parseBundle() of its bytes.  SpecDispatch: udpRecvCallback() and    *)
(* parseBundle() of datagrams with nested bundles.  SpecWire: the same of  *)
(* datagrams well formed or not; SpecWireFair: with the arrival of the     *)
(* datagram and fairness.  SpecBlob: addBlob() with any size.              *)
(***************************************************************************)
EXTENDS Integers, Sequences, FiniteSets, TLC

VARIABLES
    msg,        \* the OSCMessage under construction
    hAddr,      \* history: the address of the last successful setAddress, if any
    hArgs,      \* history: the arguments appended since the last clear()
    hTry,       \* history: the argument of the last call if that was a
                \* setAddress or an append, empty after any other call;
                \* the string matched (SpecMatch); the tree sent (SpecDispatch,
                \* SpecWire); the size passed, the builder before the call
                \* and whether bytes outside it were written (SpecBlob)
    op,         \* the operation that ran last
    ret,        \* what it returned
    outBuffer,  \* build(): the caller's output buffer
    maxSize,    \* build(): the capacity the caller passed
    bundle,     \* the OSCBundle under construction
    hMsgs,      \* history: the messages addMessage accepted, with the offset of each
    view,       \* an OSCMessageView
    buffer,     \* the bytes handed to parse() / to the receive callback
    size,       \* the length that goes with buffer
    pattern,    \* the pattern handed to matchAddress()
    stack,      \* the active parseBundle() calls, innermost last
    calls,      \* the callback invocations of the dispatcher, in order
    nCalls,     \* how many append / addMessage calls were made so far
    pc          \* where the caller is: "build", "built", "idle", "recv",
                \* "parsed", "matched", "dispatch", "done", "fault"

vars == <<msg, hAddr, hArgs, hTry, op, ret, outBuffer, maxSize, bundle, hMsgs,
          view, buffer, size, pattern, stack, calls, nCalls, pc>>

---------------------------------------------------------------------------
(* Configuration constants, lines 14-17, 502, 811.                         *)

MAX_MESSAGE_SIZE == 1024

MAX_ADDRESS_SIZE == 256

MAX_TYPE_TAG_SIZE == 64

MAX_ARG_BUFFER_SIZE == 768

MAX_BUNDLE_SIZE == 4096

MAX_ARGS == 64

(* The characters the code names, as ASCII codes.                          *)

CH_SLASH == 47

CH_COMMA == 44

CH_STAR == 42

CH_QUERY == 63

CH_i == 105

CH_f == 102

CH_s == 115

CH_S == 83

CH_b == 98

CH_h == 104

CH_d == 100

CH_t == 116

CH_T == 84

CH_F == 70

CH_N == 78

CH_I == 73

CH_m == 109

CH_c == 99

CH_r == 114

\* "#bundle", the 7 characters both memcmp calls compare
BUNDLE_TAG == <<35, 98, 117, 110, 100, 108, 101>>

---------------------------------------------------------------------------
(* Bytes, arrays and integer arithmetic.                                   *)

Byte == 0..255

Zeros(n) == [i \in 1..n |-> 0] \o <<>>

\* (n + 3) & ~3 for a small non-negative n
Align4(n) == ((n + 3) \div 4) * 4

\* memcpy(array + at, bytes, Len(bytes)) and array[at] = b, on an array whose
\* unwritten tail is zero
Write(array, at, bytes) ==
    LET head == IF at <= Len(array) THEN SubSeq(array, 1, at)
                ELSE array \o Zeros(at - Len(array))
    IN  head \o bytes \o SubSeq(array, at + Len(bytes) + 1, Len(array))

\* the n bytes array[from .. from + n - 1] (C indices)
Slice(array, from, n) ==
    IF from + n <= Len(array) THEN SubSeq(array, from + 1, from + n)
    ELSE IF from >= Len(array) THEN Zeros(n)
    ELSE SubSeq(array, from + 1, Len(array)) \o Zeros(from + n - Len(array))

INT_MAX == 2147483647

INT_MIN == -2147483647 - 1

\* the int32_t n as a 4-byte object (two's complement, little-endian)
LE32(n) == <<n % 256, (n \div 256) % 256, (n \div 65536) % 256, (n \div 16777216) % 256>>

\* the int32_t value of a 4-byte object
I32(w) == w[1] + 256 * w[2] + 65536 * w[3]
          + 16777216 * (IF w[4] >= 128 THEN w[4] - 256 ELSE w[4])

\* a + b on std::size_t (mod 2^32), on 32-bit patterns
SizeAdd(a, b) ==
    IF a >= 0 /\ b >= 0
    THEN IF a <= INT_MAX - b THEN a + b ELSE (a + INT_MIN) + (b + INT_MIN)
    ELSE IF a < 0 /\ b < 0
    THEN IF a >= INT_MIN - b THEN a + b ELSE (a - INT_MIN) + (b - INT_MIN)
    ELSE a + b

\* a <= b and a > b on std::size_t, on 32-bit patterns
SizeLe(a, b) == IF (a >= 0) = (b >= 0) THEN a <= b ELSE a >= 0

SizeGt(a, b) == ~SizeLe(a, b)

\* (a + 3) & ~3 on std::size_t
SizeAlign4(a) == LET s == SizeAdd(a, 3) IN s - (s % 4)

\* swap_endian<T> for sizeof(T) = 4 and 8, lines 42-59: byte k of the value
\* becomes byte sizeof(T) - 1 - k
swap_endian(w) == [k \in 1..Len(w) |-> w[Len(w) + 1 - k]] \o <<>>

\* swap_endian_float / swap_endian_double, lines 64-81: the same, on the
\* object's bit pattern
swap_endian_float(w) == swap_endian(w)

swap_endian_double(w) == swap_endian(w)

---------------------------------------------------------------------------
(* class OSCMessage, lines 168-491.  Every mutating method is an operator  *)
(* from the object to [ret |-> what it returns, msg |-> the object after]. *)

\* clear(), lines 176-184 (also the state the constructor leaves, line 171)
OSCMessage_clear ==
    [mAddress |-> <<>>, mAddressSize |-> 0,
     mTypeTags |-> <<>>, mTypeTagCount |-> 0,
     mArgBuffer |-> <<>>, mArgBufferSize |-> 0]

\* setAddress with the test len > MAX_ADDRESS_SIZE
setAddress_gt(m, address) ==
    LET len == Len(address)
        padded == Align4(len + 1)
    IN  IF len > MAX_ADDRESS_SIZE
        THEN [ret |-> FALSE, msg |-> m]
        ELSE [ret |-> TRUE,
              msg |-> [m EXCEPT
                  !.mAddress = Write(Write(@, 0, address \o <<0>>),
                                     len + 1, Zeros(padded - (len + 1))),
                  !.mAddressSize = padded]]

\* setAddress(address), lines 190-206; len = strlen(address)
setAddress(m, address) ==
    LET len == Len(address)
        padded == Align4(len + 1)
    IN  IF len >= MAX_ADDRESS_SIZE
        THEN [ret |-> FALSE, msg |-> m]
        ELSE [ret |-> TRUE,
              msg |-> [m EXCEPT
                  !.mAddress = Write(Write(@, 0, address \o <<0>>),
                                     len + 1, Zeros(padded - (len + 1))),
                  !.mAddressSize = padded]]

\* canAddArg with the test mArgBufferSize + bytes < MAX_ARG_BUFFER_SIZE
canAddArg_lt(m, bytes) ==
    /\ m.mTypeTagCount < MAX_TYPE_TAG_SIZE - 1
    /\ SizeAdd(m.mArgBufferSize, bytes) # MAX_ARG_BUFFER_SIZE
    /\ SizeLe(SizeAdd(m.mArgBufferSize, bytes), MAX_ARG_BUFFER_SIZE)

\* canAddArg(bytes), lines 477-481; bytes is a std::size_t
canAddArg(m, bytes) ==
    /\ m.mTypeTagCount < MAX_TYPE_TAG_SIZE - 1
    /\ SizeLe(SizeAdd(m.mArgBufferSize, bytes), MAX_ARG_BUFFER_SIZE)

\* mTypeTags[mTypeTagCount++] = tag; memcpy(mArgBuffer + mArgBufferSize, bytes, n);
\* mArgBufferSize += n: the tail the fixed-width appenders share
PutArg(m, tag, bytes) ==
    [m EXCEPT !.mTypeTags = Write(@, m.mTypeTagCount, <<tag>>),
              !.mTypeTagCount = @ + 1,
              !.mArgBuffer = Write(@, m.mArgBufferSize, bytes),
              !.mArgBufferSize = @ + Len(bytes)]

\* addInt(value), lines 211-220
addInt(m, value) ==
    IF ~canAddArg(m, 4) THEN [ret |-> FALSE, msg |-> m]
    ELSE [ret |-> TRUE, msg |-> PutArg(m, CH_i, swap_endian(value))]

\* addFloat(value), lines 225-234
addFloat(m, value) ==
    IF ~canAddArg(m, 4) THEN [ret |-> FALSE, msg |-> m]
    ELSE [ret |-> TRUE, msg |-> PutArg(m, CH_f, swap_endian_float(value))]

\* addString that pads strlen, not strlen + 1, to a multiple of 4
addString_noNul(m, value) ==
    LET len == Len(value)
        paddedLen == Align4(len)
    IN  IF ~canAddArg(m, paddedLen) THEN [ret |-> FALSE, msg |-> m]
        ELSE [ret |-> TRUE,
              msg |-> PutArg(m, CH_s, value \o Zeros(paddedLen - len))]

\* addString(value), lines 239-258
addString(m, value) ==
    LET len == Len(value)
        paddedLen == Align4(len + 1)
    IN  IF ~canAddArg(m, paddedLen) THEN [ret |-> FALSE, msg |-> m]
        ELSE [ret |-> TRUE,
              msg |-> PutArg(m, CH_s, value \o <<0>> \o Zeros(paddedLen - (len + 1)))]

\* addBlob without the padding loop
addBlob_noPad(m, data, blobSize) ==
    LET paddedDataLen == SizeAlign4(blobSize)
    IN  IF ~canAddArg(m, SizeAdd(4, paddedDataLen)) THEN [ret |-> FALSE, msg |-> m]
        ELSE LET m1 == PutArg(m, CH_b, swap_endian(LE32(blobSize)))
             IN  [ret |-> TRUE,
                  msg |-> [m1 EXCEPT
                          !.mArgBuffer = Write(@, m1.mArgBufferSize, Slice(data, 0, blobSize)),
                          !.mArgBufferSize = SizeAdd(@, blobSize)]]

\* addBlob(data, size), lines 263-286; size is an int32_t, data the bytes at
\* the pointer.  For 0 <= size <= Len(data) every step is defined.
addBlob(m, data, blobSize) ==
    LET paddedDataLen == SizeAlign4(blobSize)
    IN  IF ~canAddArg(m, SizeAdd(4, paddedDataLen)) THEN [ret |-> FALSE, msg |-> m]
        ELSE LET m1 == PutArg(m, CH_b, swap_endian(LE32(blobSize)))
                 n  == IF blobSize >= 0 THEN blobSize ELSE 0
                 m2 == [m1 EXCEPT
                          !.mArgBuffer = Write(@, m1.mArgBufferSize, Slice(data, 0, n)),
                          !.mArgBufferSize = SizeAdd(@, blobSize)]
                 pad == Align4(m2.mArgBufferSize) - m2.mArgBufferSize
             IN  [ret |-> TRUE,
                  msg |-> [m2 EXCEPT
                          !.mArgBuffer = Write(@, m2.mArgBufferSize, Zeros(pad)),
                          !.mArgBufferSize = @ + pad]]

\* addInt64(value), lines 291-300
addInt64(m, value) ==
    IF ~canAddArg(m, 8) THEN [ret |-> FALSE, msg |-> m]
    ELSE [ret |-> TRUE, msg |-> PutArg(m, CH_h, swap_endian(value))]

\* addDouble(value), lines 305-314
addDouble(m, value) ==
    IF ~canAddArg(m, 8) THEN [ret |-> FALSE, msg |-> m]
    ELSE [ret |-> TRUE, msg |-> PutArg(m, CH_d, swap_endian_double(value))]

\* addTimetag(tt), lines 319-330
addTimetag(m, tt) ==
    IF ~canAddArg(m, 8) THEN [ret |-> FALSE, msg |-> m]
    ELSE [ret |-> TRUE,
          msg |-> PutArg(m, CH_t, swap_endian(tt.seconds) \o swap_endian(tt.fractions))]

\* addTrue / addFalse / addNil / addInfinitum, lines 335-370: the tag alone
addTagOnly(m, tag) ==
    IF m.mTypeTagCount >= MAX_TYPE_TAG_SIZE - 1 THEN [ret |-> FALSE, msg |-> m]
    ELSE [ret |-> TRUE, msg |-> PutArg(m, tag, <<>>)]

addTrue(m) == addTagOnly(m, CH_T)

addFalse(m) == addTagOnly(m, CH_F)

addNil(m) == addTagOnly(m, CH_N)

addInfinitum(m) == addTagOnly(m, CH_I)

\* addMidi(port, status, data1, data2), lines 375-385
addMidi(m, midi) ==
    IF ~canAddArg(m, 4) THEN [ret |-> FALSE, msg |-> m]
    ELSE [ret |-> TRUE, msg |-> PutArg(m, CH_m, midi)]

\* addChar(c), lines 390-401
addChar(m, c) ==
    IF ~canAddArg(m, 4) THEN [ret |-> FALSE, msg |-> m]
    ELSE [ret |-> TRUE, msg |-> PutArg(m, CH_c, <<0, 0, 0, c>>)]

\* addColor(r, g, b, a), lines 406-416
addColor(m, rgba) ==
    IF ~canAddArg(m, 4) THEN [ret |-> FALSE, msg |-> m]
    ELSE [ret |-> TRUE, msg |-> PutArg(m, CH_r, rgba)]

\* build with the test totalSize >= maxSize
build_ge(m, out0, cap) ==
    LET typeTagPadded == Align4(1 + m.mTypeTagCount + 1)
        totalSize == m.mAddressSize + typeTagPadded + m.mArgBufferSize
    IN  IF totalSize >= cap \/ m.mAddressSize = 0
        THEN [ret |-> 0, out |-> out0]
        ELSE [ret |-> totalSize,
              out |-> Write(out0, 0,
                         Slice(m.mAddress, 0, m.mAddressSize)
                      \o <<CH_COMMA>> \o Slice(m.mTypeTags, 0, m.mTypeTagCount)
                      \o Zeros(typeTagPadded - 1 - m.mTypeTagCount)
                      \o Slice(m.mArgBuffer, 0, m.mArgBufferSize))]

\* build(outBuffer, maxSize), lines 424-455: [ret |-> the size_t returned,
\* out |-> outBuffer afterwards]; out0 is outBuffer before the call
build(m, out0, cap) ==
    LET typeTagSize == 1 + m.mTypeTagCount + 1
        typeTagPadded == Align4(typeTagSize)
        totalSize == m.mAddressSize + typeTagPadded + m.mArgBufferSize
    IN  IF totalSize > cap \/ m.mAddressSize = 0
        THEN [ret |-> 0, out |-> out0]
        ELSE LET pos1 == m.mAddressSize
                 o1 == Write(out0, 0, Slice(m.mAddress, 0, m.mAddressSize))
                 o2 == Write(o1, pos1, <<CH_COMMA>>)
                 o3 == Write(o2, pos1 + 1, Slice(m.mTypeTags, 0, m.mTypeTagCount))
                 pos3 == pos1 + 1 + m.mTypeTagCount
                 o4 == Write(o3, pos3, <<0>>)
                 pos4 == pos3 + 1
                 pos5 == Align4(pos4)
                 o5 == Write(o4, pos4, Zeros(pos5 - pos4))
                 o6 == Write(o5, pos5, Slice(m.mArgBuffer, 0, m.mArgBufferSize))
             IN  [ret |-> pos5 + m.mArgBufferSize, out |-> o6]

---------------------------------------------------------------------------
(* struct OSCArg and class OSCMessageView, lines 588-839.                  *)
(* A const char* is [base |-> "null"] (nullptr), [base |-> "lit"] (the     *)
(* string literal "" of line 644) or [base |-> "buf", off |-> k]           *)
(* (buffer + k, for the buffer handed to parse).                           *)

NullPtr == [base |-> "null", off |-> 0]

LitEmpty == [base |-> "lit", off |-> 0]

BufPtr(k) == [base |-> "buf", off |-> k]

\* what parse() does not assign in an OSCArg keeps this mark; no accessor reads it
Unassigned == <<"unassigned">>

\* clear(), lines 614-619, and the constructor, line 612.  mArgs holds the
\* mArgCount slots arg() can return.
OSCMessageView_clear == [mAddress |-> NullPtr, mTypeTags |-> NullPtr,
                         mArgs |-> <<>>, mArgCount |-> 0]

\* while (pos < size && buffer[pos] != '\0') pos++;  (lines 636, 649, 680)
ScanToNul(buf, pos, n) ==
    IF pos >= n THEN pos
    ELSE CHOOSE i \in pos..n :
            /\ i = n \/ buf[i + 1] = 0
            /\ \A j \in pos..(i - 1) : buf[j + 1] # 0

\* the C string at buf + off (a terminator is known to follow)
CStr(buf, off) == Slice(buf, off, ScanToNul(buf, off, Len(buf)) - off)

\* one OSCArg as lines 657-660 leave it, before the switch
NewArg(type) == [type |-> type, value |-> Unassigned, s |-> NullPtr,
                 blobData |-> NullPtr, blobSize |-> Unassigned]

\* One pass through the argument loop, lines 656-758.  st holds the loop's
\* variables: types (the offset of the current tag), pos, args (the slots
\* filled so far, mArgCount = Len(args)) and at: "loop" while the loop runs,
\* "end" once its condition failed, "fail" after a return false from the switch.
ArgStep(buf, n, st) ==
    IF st.at # "loop" THEN st
    ELSE IF ~(buf[st.types + 1] # 0 /\ Len(st.args) < MAX_ARGS)
    THEN [st EXCEPT !.at = "end"]
    ELSE
    LET t == buf[st.types + 1]
        pos == st.pos
        arg == NewArg(t)
        fail == [st EXCEPT !.at = "fail"]
        next(a, p) == [st EXCEPT !.types = @ + 1, !.pos = p, !.args = Append(@, a)]
    IN  CASE t \in {CH_i, CH_f} ->
               IF pos + 4 > n THEN fail
               ELSE next([arg EXCEPT !.value = swap_endian(Slice(buf, pos, 4))], pos + 4)
          [] t \in {CH_s, CH_S} ->
               LET e == ScanToNul(buf, pos, n)
               IN  IF e >= n THEN fail
                   ELSE next([arg EXCEPT !.s = BufPtr(pos)], Align4(e + 1))
          [] t = CH_b ->
               IF pos + 4 > n THEN fail
               ELSE LET blobSize == I32(swap_endian(Slice(buf, pos, 4)))
                        p1 == pos + 4
                    IN  IF SizeGt(SizeAdd(p1, blobSize), n) THEN fail
                        ELSE next([arg EXCEPT !.blobSize = blobSize,
                                              !.blobData = BufPtr(p1)],
                                  SizeAlign4(SizeAdd(p1, blobSize)))
          [] t \in {CH_h, CH_d} ->
               IF pos + 8 > n THEN fail
               ELSE next([arg EXCEPT !.value = swap_endian(Slice(buf, pos, 8))], pos + 8)
          [] t = CH_t ->
               IF pos + 8 > n THEN fail
               ELSE next([arg EXCEPT !.value =
                            [seconds |-> swap_endian(Slice(buf, pos, 4)),
                             fractions |-> swap_endian(Slice(buf, pos + 4, 4))]],
                         pos + 8)
          [] t \in {CH_m, CH_r} ->
               IF pos + 4 > n THEN fail
               ELSE next([arg EXCEPT !.value = Slice(buf, pos, 4)], pos + 4)
          [] t = CH_c ->
               IF pos + 4 > n THEN fail
               ELSE next([arg EXCEPT !.value = buf[pos + 3 + 1]], pos + 4)
          [] OTHER -> next(arg, pos)   \* T, F, N, I and the default case

\* k passes through the loop
RECURSIVE ArgSteps(_, _, _, _)
ArgSteps(buf, n, st, k) ==
    IF k = 0 THEN st
    ELSE IF k = 1 THEN ArgStep(buf, n, st)
    ELSE LET half == ArgSteps(buf, n, st, k \div 2)
         IN  IF half.at # "loop" THEN half
             ELSE ArgSteps(buf, n, half, k - (k \div 2))

\* the whole loop: it ends after at most MAX_ARGS slots and one more test of
\* its condition
ParseArgs(buf, n, types, pos) ==
    ArgSteps(buf, n, [types |-> types, pos |-> pos, args |-> <<>>, at |-> "loop"],
             MAX_ARGS + 1)

\* parse(buffer, size), lines 625-761: [ret |-> the bool returned,
\* view |-> the view afterwards].  The view before the call does not matter:
\* the first statement is clear().
parse(buf, n) ==
    LET v0 == OSCMessageView_clear
    IN  IF n < 4 \/ buf[1] # CH_SLASH THEN [ret |-> FALSE, view |-> v0]
        ELSE
        LET v1 == [v0 EXCEPT !.mAddress = BufPtr(0)]
            e1 == ScanToNul(buf, 0, n)
            pos1 == Align4(e1 + 1)
        IN  IF e1 >= n THEN [ret |-> FALSE, view |-> v1]
            ELSE IF pos1 >= n \/ buf[pos1 + 1] # CH_COMMA
            THEN [ret |-> TRUE, view |-> [v1 EXCEPT !.mTypeTags = LitEmpty]]
            ELSE
            LET v2 == [v1 EXCEPT !.mTypeTags = BufPtr(pos1 + 1)]
                e2 == ScanToNul(buf, pos1, n)
                pos2 == Align4(e2 + 1)
            IN  IF e2 >= n THEN [ret |-> FALSE, view |-> v2]
                ELSE
                LET r == ParseArgs(buf, n, pos1 + 1, pos2)
                IN  [ret |-> r.at = "end",
                     view |-> [v2 EXCEPT !.mArgs = r.args,
                                         !.mArgCount = Len(r.args)]]

\* matchPattern without the loop over trailing stars (line 831)
RECURSIVE matchPattern_noTrail(_, _)
matchPattern_noTrail(pat, str) ==
    IF pat # <<>> /\ str # <<>>
    THEN IF Head(pat) = CH_STAR
         THEN IF Tail(pat) = <<>> THEN TRUE
              ELSE \E k \in 1..Len(str) :
                      matchPattern_noTrail(Tail(pat), SubSeq(str, k, Len(str)))
         ELSE IF Head(pat) = CH_QUERY \/ Head(pat) = Head(str)
         THEN matchPattern_noTrail(Tail(pat), Tail(str))
         ELSE FALSE
    ELSE pat = <<>> /\ str = <<>>

\* matchPattern(pattern, str), lines 813-833, on two C strings
RECURSIVE matchPattern(_, _)
matchPattern(pat, str) ==
    IF pat # <<>> /\ str # <<>>
    THEN IF Head(pat) = CH_STAR
         THEN IF Tail(pat) = <<>> THEN TRUE
              ELSE \E k \in 1..Len(str) :
                      matchPattern(Tail(pat), SubSeq(str, k, Len(str)))
         ELSE IF Head(pat) = CH_QUERY \/ Head(pat) = Head(str)
         THEN matchPattern(Tail(pat), Tail(str))
         ELSE FALSE
    ELSE LET stars == CHOOSE k \in 0..Len(pat) :
                         /\ \A j \in 1..k : pat[j] = CH_STAR
                         /\ k = Len(pat) \/ pat[k + 1] # CH_STAR
         IN  stars = Len(pat) /\ str = <<>>

\* a const char* to a C string of the caller's
StrPtr(chars) == [base |-> "str", off |-> 0, chars |-> chars]

\* matchAddress(pattern), lines 804-808; buf is the buffer the view was parsed
\* from, pat the pointer the caller passes: NullPtr or StrPtr(chars)
matchAddress(v, buf, pat) ==
    IF v.mAddress = NullPtr \/ pat = NullPtr THEN FALSE
    ELSE matchPattern(pat.chars, CStr(buf, v.mAddress.off))

---------------------------------------------------------------------------
(* class OSCBundle, lines 499-583.                                         *)

\* clear(), lines 506-518, and the constructor, line 504
OSCBundle_clear == [mBuffer |-> BUNDLE_TAG \o <<0>>, mBufferSize |-> 16]

\* setTimetag(tt), lines 523-529
setTimetag(b, tt) ==
    [b EXCEPT !.mBuffer = Write(Write(@, 8, swap_endian(tt.seconds)),
                                12, swap_endian(tt.fractions))]

\* addMessage that writes the size prefix without swap_endian
addMessage_noSwap(b, m) ==
    LET built == build(m, <<>>, MAX_MESSAGE_SIZE)
        msgSize == built.ret
    IN  IF msgSize = 0 THEN [ret |-> FALSE, bundle |-> b]
        ELSE IF b.mBufferSize + 4 + msgSize > MAX_BUNDLE_SIZE
        THEN [ret |-> FALSE, bundle |-> b]
        ELSE [ret |-> TRUE,
              bundle |-> [b EXCEPT
                  !.mBuffer = Write(Write(@, b.mBufferSize, LE32(msgSize)),
                                    b.mBufferSize + 4, Slice(built.out, 0, msgSize)),
                  !.mBufferSize = @ + 4 + msgSize]]

\* addMessage(msg), lines 535-558: [ret |-> the bool returned, bundle |-> the
\* object afterwards].  msgBuffer is a local array; only the msgSize bytes
\* build() wrote are read.
addMessage(b, m) ==
    LET built == build(m, <<>>, MAX_MESSAGE_SIZE)
        msgSize == built.ret
    IN  IF msgSize = 0 THEN [ret |-> FALSE, bundle |-> b]
        ELSE IF b.mBufferSize + 4 + msgSize > MAX_BUNDLE_SIZE
        THEN [ret |-> FALSE, bundle |-> b]
        ELSE [ret |-> TRUE,
              bundle |-> [b EXCEPT
                  !.mBuffer = Write(Write(@, b.mBufferSize, swap_endian(LE32(msgSize))),
                                    b.mBufferSize + 4, Slice(built.out, 0, msgSize)),
                  !.mBufferSize = @ + 4 + msgSize]]

\* data() and size(), lines 563-568: the bytes a caller can read
BundleData(b) == Slice(b.mBuffer, 0, b.mBufferSize)

---------------------------------------------------------------------------
(* What a caller reads through a view's accessors (lines 763-798), given   *)
(* the buffer the view points into.                                        *)

PtrStr(buf, ptr) ==
    IF ptr.base = "buf" THEN CStr(buf, ptr.off) ELSE <<>>

ArgValue(buf, a) ==
    IF a.type \in {CH_s, CH_S} THEN PtrStr(buf, a.s)
    ELSE IF a.type = CH_b
    THEN [size |-> a.blobSize,
          data |-> Slice(buf, a.blobData.off, IF a.blobSize > 0 THEN a.blobSize ELSE 0)]
    ELSE a.value

Observe(buf, v) ==
    [address |-> PtrStr(buf, v.mAddress),
     typeTags |-> PtrStr(buf, v.mTypeTags),
     args |-> [k \in 1..v.mArgCount |->
                 [type |-> v.mArgs[k].type, value |-> ArgValue(buf, v.mArgs[k])]]]

---------------------------------------------------------------------------
(* The inputs of the builder.                                              *)

\* how many append calls one run makes (after the calls that made its
\* initial state)
MaxAppends == 2

\* "/aaa...": an address of strlen n >= 1
Addr(n) == <<CH_SLASH>> \o [i \in 1..(n - 1) |-> 97]

Addresses == {Addr(2), Addr(MAX_ADDRESS_SIZE - 1), Addr(MAX_ADDRESS_SIZE)}

Ints == {LE32(-2)}

Floats == {<<0, 0, 220, 67>>}

Strings == {<<111, 115, 99, 33>>}

Blobs == {<<1, 0, 255>>}

Int64s == {<<1, 2, 3, 4, 5, 6, 7, 128>>}

Doubles == {<<0, 0, 0, 0, 0, 128, 123, 64>>}

Timetags == {[seconds |-> LE32(1), fractions |-> LE32(0)]}

Midis == {<<0, 144, 60, 127>>}

Chars == {120}

Colors == {<<255, 0, 128, 1>>}

Caps == {MAX_MESSAGE_SIZE, 8}

\* the arguments as the caller knows them: a tag and a value
Arg(type, value) == [type |-> type, value |-> value]

BlobArg(data) == Arg(CH_b, [size |-> Len(data), data |-> data])

\* a blob that leaves 4 free bytes in the argument buffer
BigBlob == [i \in 1..(MAX_ARG_BUFFER_SIZE - 8) |-> (7 * i) % 256]

\* k calls of addTrue()
RECURSIVE AddTrueN(_, _)
AddTrueN(m, k) ==
    IF k = 0 THEN m
    ELSE IF k = 1 THEN addTrue(m).msg
    ELSE LET half == AddTrueN(m, k \div 2)
         IN  IF half = m THEN m ELSE AddTrueN(half, k - (k \div 2))

\* The builders a run starts from: a fresh one, and one that has room for one
\* more type tag and 4 more argument bytes (after addBlob(BigBlob) and addTrue()
\* as often as it takes).  Each is given with the arguments the calls appended.
Starts ==
    {[msg |-> OSCMessage_clear, args |-> <<>>],
     [msg |-> AddTrueN(addBlob(OSCMessage_clear, BigBlob, Len(BigBlob)).msg,
                       MAX_TYPE_TAG_SIZE - 3),
      args |-> <<BlobArg(BigBlob)>> \o
               [i \in 1..(MAX_TYPE_TAG_SIZE - 3) |-> Arg(CH_T, Unassigned)]]}

NoAddr == [set |-> FALSE, chars |-> <<>>]

Init ==
    /\ \E st \in Starts : msg = st.msg /\ hArgs = st.args
    /\ hAddr = NoAddr /\ hTry = <<>>
    /\ op = "init" /\ ret = TRUE /\ nCalls = 0 /\ pc = "build"
    /\ outBuffer = <<>> /\ maxSize = 0
    /\ bundle = OSCBundle_clear /\ hMsgs = <<>>
    /\ view = OSCMessageView_clear /\ buffer = <<>> /\ size = 0
    /\ pattern = NullPtr /\ stack = <<>> /\ calls = <<>>

---------------------------------------------------------------------------
(* The operations of the builder, one action each.                         *)

restOfBuilder == <<outBuffer, maxSize, bundle, hMsgs, view, buffer, size,
                   pattern, stack, calls, pc>>

Clear ==
    /\ pc = "build"
    /\ msg' = OSCMessage_clear
    /\ hAddr' = NoAddr /\ hArgs' = <<>>
    /\ op' = "clear" /\ ret' = TRUE /\ hTry' = <<>>
    /\ UNCHANGED <<nCalls, restOfBuilder>>

SetAddress ==
    /\ pc = "build"
    /\ \E a \in Addresses :
         LET r == setAddress(msg, a)
         IN  /\ msg' = r.msg /\ ret' = r.ret
             /\ hAddr' = IF r.ret THEN [set |-> TRUE, chars |-> a] ELSE hAddr
             /\ hTry' = a
    /\ op' = "setAddress"
    /\ UNCHANGED <<hArgs, nCalls, restOfBuilder>>

\* an append that returned r for the argument a
Appended(r, a) ==
    /\ pc = "build" /\ nCalls < MaxAppends
    /\ msg' = r.msg /\ ret' = r.ret
    /\ hArgs' = IF r.ret THEN Append(hArgs, a) ELSE hArgs
    /\ hTry' = a
    /\ op' = "add" /\ nCalls' = nCalls + 1
    /\ UNCHANGED <<hAddr, restOfBuilder>>

AddInt == \E v \in Ints : Appended(addInt(msg, v), Arg(CH_i, v))

AddFloat == \E v \in Floats : Appended(addFloat(msg, v), Arg(CH_f, v))

AddString == \E v \in Strings : Appended(addString(msg, v), Arg(CH_s, v))

AddBlob == \E v \in Blobs : Appended(addBlob(msg, v, Len(v)), BlobArg(v))

AddInt64 == \E v \in Int64s : Appended(addInt64(msg, v), Arg(CH_h, v))

AddDouble == \E v \in Doubles : Appended(addDouble(msg, v), Arg(CH_d, v))

AddTimetag == \E v \in Timetags : Appended(addTimetag(msg, v), Arg(CH_t, v))

AddTrue == Appended(addTrue(msg), Arg(CH_T, Unassigned))

AddFalse == Appended(addFalse(msg), Arg(CH_F, Unassigned))

AddNil == Appended(addNil(msg), Arg(CH_N, Unassigned))

AddInfinitum == Appended(addInfinitum(msg), Arg(CH_I, Unassigned))

AddMidi == \E v \in Midis : Appended(addMidi(msg, v), Arg(CH_m, v))

AddChar == \E v \in Chars : Appended(addChar(msg, v), Arg(CH_c, v))

AddColor == \E v \in Colors : Appended(addColor(msg, v), Arg(CH_r, v))

\* build() into a buffer of the caller's, of one of the capacities Caps
Build ==
    /\ pc = "build"
    /\ \E cap \in Caps :
         LET r == build(msg, outBuffer, cap)
         IN  outBuffer' = r.out /\ ret' = r.ret /\ maxSize' = cap
    /\ op' = "build" /\ pc' = "built" /\ hTry' = <<>>
    /\ UNCHANGED <<msg, hAddr, hArgs, nCalls, bundle, hMsgs, view, buffer,
                   size, pattern, stack, calls>>

\* parse() of what build() produced
ParseBuilt ==
    /\ pc = "built" /\ ret # 0
    /\ buffer' = Slice(outBuffer, 0, ret) /\ size' = ret
    /\ LET r == parse(Slice(outBuffer, 0, ret), ret)
       IN  view' = r.view /\ ret' = r.ret
    /\ op' = "parse" /\ pc' = "parsed"
    /\ UNCHANGED <<msg, hAddr, hArgs, hTry, nCalls, outBuffer, maxSize, bundle,
                   hMsgs, pattern, stack, calls>>

\* addMessage(m) for a builder m the caller holds; addr and args are what the
\* caller put into m
AddMessageOf(m, addr, args) ==
    /\ pc = "build"
    /\ LET r == addMessage(bundle, m)
       IN  /\ bundle' = r.bundle /\ ret' = r.ret
           /\ hMsgs' = IF r.ret
                       THEN Append(hMsgs, [off |-> bundle.mBufferSize,
                                           addr |-> addr, args |-> args])
                       ELSE hMsgs
    /\ op' = "addMessage" /\ nCalls' = nCalls + 1

\* addMessage(msg) for the builder under construction
AddMessage ==
    /\ nCalls < MaxAppends
    /\ AddMessageOf(msg, hAddr, hArgs)
    /\ hTry' = <<>>
    /\ UNCHANGED <<msg, hAddr, hArgs, outBuffer, maxSize, view, buffer, size,
                   pattern, stack, calls, pc>>

Next ==
    \/ Clear \/ SetAddress
    \/ AddInt \/ AddFloat \/ AddString \/ AddBlob \/ AddInt64 \/ AddDouble
    \/ AddTimetag \/ AddTrue \/ AddFalse \/ AddNil \/ AddInfinitum
    \/ AddMidi \/ AddChar \/ AddColor
    \/ Build \/ ParseBuilt \/ AddMessage

Spec == Init /\ [][Next]_vars

---------------------------------------------------------------------------
(* The properties of the builder, checked under Spec.                      *)

\* n rounded up to a multiple of 4
RoundUp4(n) == n + ((4 - (n % 4)) % 4)

\* the bytes an argument takes on the wire (spec section 3)
ArgWidth(a) ==
    CASE a.type \in {CH_i, CH_f, CH_m, CH_c, CH_r} -> 4
      [] a.type \in {CH_h, CH_d, CH_t} -> 8
      [] a.type = CH_s -> RoundUp4(Len(a.value) + 1)
      [] a.type = CH_b -> 4 + RoundUp4(a.value.size)
      [] OTHER -> 0

TagsOf(args) == [k \in 1..Len(args) |-> args[k].type] \o <<>>

\* C1: a message built by setAddress (address starting with '/') and
\* successful appends, once build() succeeded, parses: parse returns true
\* and the view shows the same address, the same type tags in the same
\* order, as many arguments as were appended, and for each the same value.
C1_RoundTrip ==
    (pc = "parsed" /\ hAddr.set /\ Len(hAddr.chars) > 0
                   /\ hAddr.chars[1] = CH_SLASH)
    => /\ ret = TRUE
       /\ view.mArgCount = Len(hArgs)
       /\ Observe(buffer, view) =
             [address |-> hAddr.chars, typeTags |-> TagsOf(hArgs), args |-> hArgs]

\* a string and a blob went through build() and parse()
C1_Witness ==
    /\ pc = "parsed" /\ ret = TRUE /\ Len(hArgs) = 2
    /\ hArgs[1].type = CH_s /\ hArgs[2].type = CH_b

\* C2: an append fails exactly when the tag count is at its maximum or the
\* argument's padded width does not fit the argument buffer; a failing append
\* changes nothing of the builder, so build() yields the same bytes.
C2_AppendAtomic ==
    [][op' = "add" /\ nCalls' = nCalls + 1 =>
         LET full == msg.mTypeTagCount = MAX_TYPE_TAG_SIZE - 1
             over == msg.mArgBufferSize + ArgWidth(hTry') > MAX_ARG_BUFFER_SIZE
         IN  /\ (ret' = FALSE) <=> (full \/ over)
             /\ ret' = FALSE =>
                  /\ msg' = msg
                  /\ build(msg', <<>>, MAX_MESSAGE_SIZE) = build(msg, <<>>, MAX_MESSAGE_SIZE)
             /\ ret' = TRUE =>
                  /\ msg'.mTypeTagCount = msg.mTypeTagCount + 1
                  /\ msg'.mArgBufferSize = msg.mArgBufferSize + ArgWidth(hTry')]_vars

\* an append failed for lack of argument bytes alone
C2_Witness ==
    /\ op = "add" /\ ret = FALSE
    /\ msg.mTypeTagCount < MAX_TYPE_TAG_SIZE - 1
    /\ msg.mArgBufferSize + ArgWidth(hTry) > MAX_ARG_BUFFER_SIZE

\* C3, as claimed: setAddress rejects every address whose length including
\* the terminator reaches MAX_ADDRESS_SIZE and accepts every shorter one.
C3_Original ==
    op = "setAddress" => ((ret = FALSE) <=> (Len(hTry) + 1 >= MAX_ADDRESS_SIZE))

\* C3, amended: setAddress rejects, changing nothing, every address whose
\* length without the terminator reaches MAX_ADDRESS_SIZE, and accepts every
\* shorter one, storing it NUL-terminated and zero-padded to a multiple of 4.
C3_Amended ==
    [][op' = "setAddress" =>
         LET len == Len(hTry')
         IN  /\ (ret' = FALSE) <=> (len >= MAX_ADDRESS_SIZE)
             /\ ret' = FALSE => msg' = msg
             /\ ret' = TRUE =>
                  /\ msg'.mAddressSize = RoundUp4(len + 1)
                  /\ msg'.mAddressSize <= MAX_ADDRESS_SIZE
                  /\ Slice(msg'.mAddress, 0, msg'.mAddressSize)
                       = hTry' \o Zeros(msg'.mAddressSize - len)
                  /\ msg'.mTypeTags = msg.mTypeTags
                  /\ msg'.mArgBuffer = msg.mArgBuffer]_vars

\* the address that fills the array with its terminator was accepted
C3_Witness ==
    /\ op = "setAddress" /\ ret = TRUE
    /\ Len(hTry) = MAX_ADDRESS_SIZE - 1
    /\ msg.mAddressSize = MAX_ADDRESS_SIZE

\* C4: build(out, capacity) returns 0 exactly when no address is set or the
\* total exceeds the capacity; otherwise it returns the total and the output
\* is the address, then ',' tags NUL padding, then the arguments.
C4_Build ==
    pc = "built" =>
       LET tagLen == RoundUp4(1 + msg.mTypeTagCount + 1)
           total == msg.mAddressSize + tagLen + msg.mArgBufferSize
       IN  /\ (ret = 0) <=> (~hAddr.set \/ total > maxSize)
           /\ ret # 0 =>
                /\ ret = total /\ ret <= maxSize
                /\ Slice(outBuffer, 0, ret) =
                       Slice(msg.mAddress, 0, msg.mAddressSize)
                    \o <<CH_COMMA>> \o Slice(msg.mTypeTags, 0, msg.mTypeTagCount)
                    \o Zeros(tagLen - 1 - msg.mTypeTagCount)
                    \o Slice(msg.mArgBuffer, 0, msg.mArgBufferSize)

\* build() refused a message with an address, for its size alone
C4_Witness ==
    pc = "built" /\ ret = 0 /\ hAddr.set /\ msg.mTypeTagCount > 1

\* C5: the address length is 0 or a positive multiple of 4 within the
\* capacity; the argument length is a multiple of 4 within the capacity after
\* every append; in a built message the address, the type tags and every
\* argument end at a multiple of 4; in a bundle every size prefix and every
\* element start at a multiple of 4.
C5_Aligned ==
    /\ \/ msg.mAddressSize = 0
       \/ /\ msg.mAddressSize > 0 /\ msg.mAddressSize % 4 = 0
          /\ msg.mAddressSize <= MAX_ADDRESS_SIZE
    /\ msg.mArgBufferSize % 4 = 0 /\ msg.mArgBufferSize >= 0
    /\ msg.mArgBufferSize <= MAX_ARG_BUFFER_SIZE
    /\ (pc = "built" /\ ret # 0) =>
          /\ ret % 4 = 0
          /\ outBuffer[msg.mAddressSize + 1] = CH_COMMA
          /\ (ret - msg.mArgBufferSize) % 4 = 0
    /\ pc = "parsed" =>
          \A k \in 1..view.mArgCount :
             /\ view.mArgs[k].s.off % 4 = 0
             /\ view.mArgs[k].blobData.off % 4 = 0
    /\ bundle.mBufferSize % 4 = 0
    /\ \A k \in 1..Len(hMsgs) :
          LET off == hMsgs[k].off
              elemSize == I32(swap_endian(Slice(bundle.mBuffer, off, 4)))
              end == IF k < Len(hMsgs) THEN hMsgs[k + 1].off ELSE bundle.mBufferSize
          IN  /\ off % 4 = 0 /\ (off + 4) % 4 = 0
              /\ off + 4 + elemSize = end

\* a message with a blob of 3 bytes was added to the bundle
C5_Witness ==
    /\ Len(hMsgs) = 1 /\ bundle.mBufferSize > 16
    /\ Len(hMsgs[1].args) = 1 /\ hMsgs[1].args[1].type = CH_b
    /\ hMsgs[1].args[1].value.size = 3

---------------------------------------------------------------------------
(* parse() on buffers a sender chose: SpecParse.                           *)

\* how many 4-byte words follow the type tags of a chosen buffer
MaxWords == 2

\* the first 4 bytes: "/a", "/abc" without a terminator, and "a/"
ParseAddrs == {<<CH_SLASH, 97, 0, 0>>, <<CH_SLASH, 97, 98, 99>>, <<97, CH_SLASH, 0, 0>>}

\* the type tags: none, ",i", ",s", ",b", ",bs"
ParseTags == {<<>>, <<CH_COMMA, CH_i, 0, 0>>, <<CH_COMMA, CH_s, 0, 0>>,
              <<CH_COMMA, CH_b, 0, 0>>, <<CH_COMMA, CH_b, CH_s, 0>>}

\* the words after them: 0, 3, -1, -8, 2^31 - 1 (big-endian), "abcd", "a"
ParseWords == {<<0, 0, 0, 0>>, <<0, 0, 0, 3>>, <<255, 255, 255, 255>>,
               <<255, 255, 255, 248>>, <<127, 255, 255, 255>>,
               <<97, 98, 99, 100>>, <<97, 0, 0, 0>>}

RECURSIVE WordSeqs(_)
WordSeqs(k) ==
    IF k = 0 THEN {<<>>}
    ELSE LET shorter == WordSeqs(k - 1)
         IN  shorter \cup {ws \o w : ws \in shorter, w \in ParseWords}

ParseBuffers == {a \o t \o ws : a \in ParseAddrs, t \in ParseTags, ws \in WordSeqs(MaxWords)}

\* the sizes handed to parse() with a buffer: its length, or up to 4 bytes less
ParseSizes(buf) == {n \in 0..Len(buf) : n >= Len(buf) - 4}

\* a view as an earlier parse() of another buffer left it
OldPtr(k) == [base |-> "old", off |-> k]

OldView == [mAddress |-> OldPtr(0), mTypeTags |-> OldPtr(5),
            mArgs |-> <<[NewArg(CH_s) EXCEPT !.s = OldPtr(8)]>>, mArgCount |-> 1]

InitParse ==
    /\ buffer \in ParseBuffers /\ size \in ParseSizes(buffer)
    /\ view \in {OSCMessageView_clear, OldView}
    /\ msg = OSCMessage_clear /\ hArgs = <<>> /\ hAddr = NoAddr /\ hTry = <<>>
    /\ op = "init" /\ ret = TRUE /\ nCalls = 0 /\ pc = "recv"
    /\ outBuffer = <<>> /\ maxSize = 0
    /\ bundle = OSCBundle_clear /\ hMsgs = <<>>
    /\ pattern = NullPtr /\ stack = <<>> /\ calls = <<>>

\* view.parse(buffer, size)
Parse ==
    /\ pc = "recv"
    /\ LET r == parse(buffer, size)
       IN  view' = r.view /\ ret' = r.ret
    /\ op' = "parse" /\ pc' = "parsed"
    /\ UNCHANGED <<msg, hAddr, hArgs, hTry, outBuffer, maxSize, bundle, hMsgs,
                   buffer, size, pattern, stack, calls, nCalls>>

NextParse == Parse

SpecParse == InitParse /\ [][NextParse]_vars

\* C7: whenever parse() returns false the view is cleared: address() and
\* typeTags() are null and argCount() is 0.
C7_FailedParseCleared ==
    (op = "parse" /\ ret = FALSE)
    => /\ view.mAddress = NullPtr
       /\ view.mTypeTags = NullPtr
       /\ view.mArgCount = 0

\* C10: after a successful parse() every slice of the view lies inside the
\* buffer: the address and every string argument end at a NUL before size,
\* every blob has a size >= 0 and its bytes within the first size bytes (so a
\* blob of negative declared length makes parse() return false).
C10_SlicesInside ==
    (op = "parse" /\ ret = TRUE)
    => /\ view.mAddress.base = "buf"
       /\ ScanToNul(buffer, view.mAddress.off, size) < size
       /\ \A k \in 1..view.mArgCount :
             LET a == view.mArgs[k]
             IN  /\ a.type \in {CH_s, CH_S} =>
                      /\ a.s.off >= 0
                      /\ ScanToNul(buffer, a.s.off, size) < size
                 /\ a.type = CH_b =>
                      /\ a.blobSize >= 0
                      /\ a.blobData.off >= 0
                      /\ a.blobData.off + a.blobSize <= size

---------------------------------------------------------------------------
(* matchAddress() and matchPattern(): SpecMatch.                           *)

\* the longest pattern and the longest address
MaxPatLen == 3

MaxStrLen == 3

MatchChars == {CH_STAR, CH_QUERY, CH_SLASH, 97}

RECURSIVE Strs(_)
Strs(k) ==
    IF k = 0 THEN {<<>>}
    ELSE LET shorter == Strs(k - 1)
         IN  shorter \cup {<<c>> \o w : c \in MatchChars, w \in {x \in shorter : Len(x) = k - 1}}

\* the message a sender builds with the address str and no argument
Datagram(str) ==
    LET b == build(setAddress(OSCMessage_clear, str).msg, <<>>, MAX_MESSAGE_SIZE)
    IN  Slice(b.out, 0, b.ret)

InitMatch ==
    /\ hTry \in Strs(MaxStrLen)
    /\ pattern \in {NullPtr} \cup {StrPtr(p) : p \in Strs(MaxPatLen)}
    /\ buffer = Datagram(hTry) /\ size = Len(buffer)
    /\ view = OSCMessageView_clear
    /\ msg = OSCMessage_clear /\ hArgs = <<>> /\ hAddr = NoAddr
    /\ op = "init" /\ ret = TRUE /\ nCalls = 0 /\ pc = "recv"
    /\ outBuffer = <<>> /\ maxSize = 0
    /\ bundle = OSCBundle_clear /\ hMsgs = <<>>
    /\ stack = <<>> /\ calls = <<>>

\* view.matchAddress(pattern), on a fresh view or after parse()
MatchAddress ==
    /\ pc \in {"recv", "parsed"}
    /\ ret' = matchAddress(view, buffer, pattern)
    /\ op' = "matchAddress" /\ pc' = "matched"
    /\ UNCHANGED <<msg, hAddr, hArgs, hTry, outBuffer, maxSize, bundle, hMsgs,
                   view, buffer, size, pattern, stack, calls, nCalls>>

\* matchPattern(pattern, str) on two C strings
MatchPattern ==
    /\ pc = "recv" /\ pattern # NullPtr
    /\ ret' = matchPattern(pattern.chars, hTry)
    /\ op' = "matchPattern" /\ pc' = "matched"
    /\ UNCHANGED <<msg, hAddr, hArgs, hTry, outBuffer, maxSize, bundle, hMsgs,
                   view, buffer, size, pattern, stack, calls, nCalls>>

NextMatch == Parse \/ MatchAddress \/ MatchPattern

SpecMatch == InitMatch /\ [][NextMatch]_vars

\* p matches the whole of s: each '*' covers k >= 0 characters, each '?' one
\* character, any other character itself
RECURSIVE Glob(_, _)
Glob(p, s) ==
    IF p = <<>> THEN s = <<>>
    ELSE IF Head(p) = CH_STAR
    THEN \E k \in 0..Len(s) : Glob(Tail(p), SubSeq(s, k + 1, Len(s)))
    ELSE /\ s # <<>>
         /\ Head(p) = CH_QUERY \/ Head(p) = Head(s)
         /\ Glob(Tail(p), Tail(s))

\* C8: matchAddress(pattern) on a view with an address returns true exactly
\* when the pattern matches the whole address as a glob ('*' any run, '?' one
\* character, others themselves), and so does matchPattern on any two strings.
C8_GlobSemantics ==
    /\ (op = "matchAddress" /\ view.mAddress # NullPtr /\ pattern # NullPtr)
       => /\ CStr(buffer, view.mAddress.off) = hTry
          /\ ret = Glob(pattern.chars, hTry)
    /\ op = "matchPattern" => ret = Glob(pattern.chars, hTry)

\* the trailing stars of "/**" matched the empty remainder of "/"
C8_Witness ==
    /\ op = "matchAddress" /\ ret = TRUE /\ view.mAddress # NullPtr
    /\ pattern = StrPtr(<<CH_SLASH, CH_STAR, CH_STAR>>)
    /\ hTry = <<CH_SLASH>>

---------------------------------------------------------------------------
(* class OSCServer: udpRecvCallback (lines 913-951) and parseBundle (lines *)
(* 953-985).  The received bytes are in buffer, size is their count.  Each *)
(* running parseBundle call is a frame of stack: base is the offset of its *)
(* buffer argument in buffer, size its size argument, pos its local, and   *)
(* elem the elemSize of the element it is recursing into.  calls lists     *)
(* what each invocation of mCallback could read from its view.             *)

\* size >= 8 && memcmp(data, "#bundle", 7) == 0, lines 941 and 971-972, for
\* the size bytes at offset at of buffer
IsBundle(at, n) == n >= 8 /\ Slice(buffer, at, 7) = BUNDLE_TAG

\* the frame of parseBundle(buffer + at, n), line 956
Frame(at, n) == [base |-> at, size |-> n, pos |-> 16, elem |-> 0]

Top == stack[Len(stack)]

\* the loop condition, line 958
HasElem(f) == f.pos + 4 <= f.size

\* elemSize as lines 960-962 read it
ElemSize(f) == I32(swap_endian(Slice(buffer, f.base + f.pos, 4)))

\* the break condition with pos + elemSize >= size
Breaks_ge(f) ==
    \/ ElemSize(f) <= 0
    \/ SizeAdd(f.pos + 4, ElemSize(f)) = f.size
    \/ SizeGt(SizeAdd(f.pos + 4, ElemSize(f)), f.size)

\* the break condition with elemSize < 0
Breaks_lt(f) ==
    ElemSize(f) < 0 \/ SizeGt(SizeAdd(f.pos + 4, ElemSize(f)), f.size)

\* the break condition without its test of the sign of elemSize
Breaks_pos(f) == SizeGt(SizeAdd(f.pos + 4, ElemSize(f)), f.size)

\* the break condition of line 965, pos already advanced by 4
Breaks(f) ==
    ElemSize(f) <= 0 \/ SizeGt(SizeAdd(f.pos + 4, ElemSize(f)), f.size)

\* the call returns: the loop ends or breaks.  The caller, if any, goes on
\* after its recursive call with pos += elemSize (line 982).
ParseBundleReturn ==
    /\ pc = "dispatch"
    /\ ~HasElem(Top) \/ Breaks(Top)
    /\ IF Len(stack) = 1
       THEN stack' = <<>> /\ pc' = "done"
       ELSE LET caller == stack[Len(stack) - 1]
            IN  /\ stack' = SubSeq(stack, 1, Len(stack) - 2)
                             \o <<[caller EXCEPT !.pos = @ + caller.elem, !.elem = 0]>>
                /\ pc' = pc
    /\ UNCHANGED <<msg, hAddr, hArgs, hTry, op, ret, outBuffer, maxSize, bundle,
                   hMsgs, view, buffer, size, pattern, calls, nCalls>>

\* the element is a nested bundle: parseBundle(elemData, elemSize), line 973
ParseBundleNested ==
    /\ pc = "dispatch"
    /\ HasElem(Top) /\ ~Breaks(Top)
    /\ IsBundle(Top.base + Top.pos + 4, ElemSize(Top))
    /\ stack' = SubSeq(stack, 1, Len(stack) - 1)
                 \o <<[Top EXCEPT !.pos = @ + 4, !.elem = ElemSize(Top)],
                      Frame(Top.base + Top.pos + 4, ElemSize(Top))>>
    /\ UNCHANGED <<msg, hAddr, hArgs, hTry, op, ret, outBuffer, maxSize, bundle,
                   hMsgs, view, buffer, size, pattern, calls, nCalls, pc>>

\* the element is parsed as a message, lines 975-979, and pos += elemSize
ParseBundleMessage ==
    /\ pc = "dispatch"
    /\ HasElem(Top) /\ ~Breaks(Top)
    /\ ~IsBundle(Top.base + Top.pos + 4, ElemSize(Top))
    /\ LET elemData == Slice(buffer, Top.base + Top.pos + 4, ElemSize(Top))
           r == parse(elemData, ElemSize(Top))
       IN  /\ view' = r.view /\ ret' = r.ret
           /\ calls' = IF r.ret THEN Append(calls, Observe(elemData, r.view))
                       ELSE calls
    /\ op' = "parse"
    /\ stack' = SubSeq(stack, 1, Len(stack) - 1)
                 \o <<[Top EXCEPT !.pos = @ + 4 + ElemSize(Top)]>>
    /\ UNCHANGED <<msg, hAddr, hArgs, hTry, outBuffer, maxSize, bundle,
                   hMsgs, buffer, size, pattern, nCalls, pc>>

---------------------------------------------------------------------------
(* Bundles built by OSCBundle and walked by parseBundle: SpecBundle.       *)

\* how many addMessage calls one run makes (after the calls that made its
\* initial state)
MaxMsgs == 3

\* the append call for an argument the caller holds as a tag and a value
AddArg(m, a) ==
    CASE a.type = CH_i -> addInt(m, a.value)
      [] a.type = CH_f -> addFloat(m, a.value)
      [] a.type = CH_s -> addString(m, a.value)
      [] a.type = CH_b -> addBlob(m, a.value.data, a.value.size)
      [] a.type = CH_h -> addInt64(m, a.value)
      [] a.type = CH_d -> addDouble(m, a.value)
      [] a.type = CH_t -> addTimetag(m, a.value)
      [] a.type = CH_T -> addTrue(m)
      [] a.type = CH_F -> addFalse(m)
      [] a.type = CH_N -> addNil(m)
      [] a.type = CH_I -> addInfinitum(m)
      [] a.type = CH_m -> addMidi(m, a.value)
      [] a.type = CH_c -> addChar(m, a.value)
      [] a.type = CH_r -> addColor(m, a.value)

RECURSIVE AddArgs(_, _)
AddArgs(m, args) ==
    IF args = <<>> THEN m ELSE AddArgs(AddArg(m, Head(args)).msg, Tail(args))

\* the builder after setAddress (if addr is set) and one append per argument
MsgOf(addr, args) ==
    AddArgs(IF addr.set THEN setAddress(OSCMessage_clear, addr.chars).msg
            ELSE OSCMessage_clear, args)

Address(chars) == [set |-> TRUE, chars |-> chars]

\* The messages a caller adds: "/a" with an int, "/b" with a string, "/a"
\* bare, one without address, one of MAX_MESSAGE_SIZE bytes, and one whose
\* address is "#bundle".
Messages ==
   <<[addr |-> Address(Addr(2)), args |-> <<Arg(CH_i, LE32(-2))>>],
     [addr |-> Address(<<CH_SLASH, 98>>), args |-> <<Arg(CH_s, <<111, 115, 99, 33>>)>>],
     [addr |-> Address(Addr(2)), args |-> <<>>],
     [addr |-> NoAddr, args |-> <<Arg(CH_T, Unassigned)>>],
     [addr |-> Address(Addr(MAX_ADDRESS_SIZE - 1)), args |-> <<BlobArg(BigBlob)>>],
     [addr |-> Address(BUNDLE_TAG), args |-> <<>>]>>

BundleTimetags == {[seconds |-> LE32(-1), fractions |-> LE32(-2)]}

\* what the caller knows of a bundle after one more accepted message
Added(st, d) ==
    [bundle |-> addMessage(st.bundle, MsgOf(d.addr, d.args)).bundle,
     msgs |-> Append(st.msgs, [off |-> st.bundle.mBufferSize,
                               addr |-> d.addr, args |-> d.args])]

\* The bundles a run starts from: a fresh one, and one that holds three
\* messages of MAX_MESSAGE_SIZE bytes and so has no room for a fourth.
BundleStarts ==
    LET fresh == [bundle |-> OSCBundle_clear, msgs |-> <<>>]
    IN  <<fresh, Added(Added(Added(fresh, Messages[5]), Messages[5]), Messages[5])>>

InitBundle ==
    /\ \E i \in DOMAIN BundleStarts :
          bundle = BundleStarts[i].bundle /\ hMsgs = BundleStarts[i].msgs
    /\ msg = OSCMessage_clear /\ hArgs = <<>> /\ hAddr = NoAddr /\ hTry = <<>>
    /\ op = "init" /\ ret = TRUE /\ nCalls = 0 /\ pc = "build"
    /\ outBuffer = <<>> /\ maxSize = 0
    /\ view = OSCMessageView_clear /\ buffer = <<>> /\ size = 0
    /\ pattern = NullPtr /\ stack = <<>> /\ calls = <<>>

restOfBundle == <<msg, hAddr, hArgs, hTry, outBuffer, maxSize, view, buffer, size,
                  pattern, stack, calls, pc>>

\* bundle.addMessage(m) for one of the messages
BundleAdd ==
    /\ nCalls < MaxMsgs
    /\ \E i \in DOMAIN Messages :
         LET d == Messages[i]
         IN  AddMessageOf(MsgOf(d.addr, d.args), d.addr, d.args)
    /\ UNCHANGED restOfBundle

\* bundle.clear()
BundleClear ==
    /\ pc = "build" /\ hMsgs # <<>>
    /\ bundle' = OSCBundle_clear /\ hMsgs' = <<>>
    /\ op' = "clear" /\ ret' = TRUE
    /\ UNCHANGED <<nCalls, restOfBundle>>

\* bundle.setTimetag(tt)
SetTimetag ==
    /\ pc = "build"
    /\ \E tt \in BundleTimetags : bundle' = setTimetag(bundle, tt)
    /\ op' = "setTimetag" /\ ret' = TRUE
    /\ UNCHANGED <<hMsgs, nCalls, restOfBundle>>

\* parseBundle(bundle.data(), bundle.size())
DispatchBundle ==
    /\ pc = "build"
    /\ buffer' = BundleData(bundle) /\ size' = bundle.mBufferSize
    /\ stack' = <<Frame(0, bundle.mBufferSize)>>
    /\ op' = "parseBundle" /\ pc' = "dispatch"
    /\ UNCHANGED <<msg, hAddr, hArgs, hTry, ret, outBuffer, maxSize, bundle, hMsgs,
                   view, pattern, calls, nCalls>>

NextBundle ==
    \/ BundleAdd \/ BundleClear \/ SetTimetag \/ DispatchBundle
    \/ ParseBundleReturn \/ ParseBundleNested \/ ParseBundleMessage

SpecBundle == InitBundle /\ [][NextBundle]_vars

\* what a receiver reads of a message sent with this address and arguments
Sent(addr, args) == [address |-> addr, typeTags |-> TagsOf(args), args |-> args]

\* C6: when the dispatcher has walked the bytes of a bundle into which
\* addMessage accepted N messages with addresses starting with '/', the
\* callback ran exactly N times, in the order of the addMessage calls, each
\* time with the address and arguments of the corresponding message, whatever
\* timetag was set.
C6_BundleCardinality ==
    (pc = "done" /\ \A k \in 1..Len(hMsgs) : hMsgs[k].addr.chars[1] = CH_SLASH)
    => /\ Len(calls) = Len(hMsgs)
       /\ \A k \in 1..Len(hMsgs) : calls[k] = Sent(hMsgs[k].addr.chars, hMsgs[k].args)

\* a bundle of two one-argument messages, with a timetag set, was dispatched
C6_Witness ==
    /\ pc = "done" /\ Len(hMsgs) = 2 /\ Len(calls) = 2
    /\ Len(hMsgs[1].args) = 1 /\ Len(hMsgs[2].args) = 1
    /\ hMsgs[1].addr # hMsgs[2].addr
    /\ Slice(buffer, 8, 8) # Zeros(8)

---------------------------------------------------------------------------
(* Datagrams holding messages and bundles, nested bundles included, as     *)
(* udpRecvCallback receives them: SpecDispatch.                            *)

\* how many nodes (messages and bundles) a received datagram holds
MaxNodes == 5

\* the leaf messages: "/a" with an int, "/b" with a string
LeafMsgs == <<Messages[1], Messages[2]>>

Leaf(i) == [kind |-> "msg", leaf |-> i, kids |-> <<>>]

Bundle(kids) == [kind |-> "bundle", leaf |-> 0, kids |-> kids]

\* the trees of exactly n nodes, and the sequences of trees of m nodes in all
RECURSIVE TreesOf(_), ForestsOf(_)
TreesOf(n) ==
    (IF n = 1 THEN {Leaf(i) : i \in DOMAIN LeafMsgs} ELSE {})
    \cup {Bundle(f) : f \in ForestsOf(n - 1)}

ForestsOf(m) ==
    IF m = 0 THEN {<<>>}
    ELSE UNION {{<<t>> \o f : t \in TreesOf(k), f \in ForestsOf(m - k)} : k \in 1..m}

Trees == UNION {TreesOf(n) : n \in 1..MaxNodes}

\* the timetag of a bundle on the wire: "immediately"
Immediately == <<0, 0, 0, 0, 0, 0, 0, 1>>

\* the bytes of a tree: a message as build() makes it, a bundle as "#bundle",
\* NUL, a timetag and each element after its big-endian size
RECURSIVE Encode(_), EncodeAll(_)
Encode(t) ==
    IF t.kind = "msg"
    THEN LET d == LeafMsgs[t.leaf]
             b == build(MsgOf(d.addr, d.args), <<>>, MAX_MESSAGE_SIZE)
         IN  Slice(b.out, 0, b.ret)
    ELSE BUNDLE_TAG \o <<0>> \o Immediately \o EncodeAll(t.kids)

EncodeAll(kids) ==
    IF kids = <<>> THEN <<>>
    ELSE LET e == Encode(Head(kids))
         IN  swap_endian(LE32(Len(e))) \o e \o EncodeAll(Tail(kids))

\* the leaf messages of a tree, depth first and left to right, as a receiver
\* reads them
RECURSIVE Leaves(_), LeavesAll(_)
Leaves(t) ==
    IF t.kind = "msg"
    THEN <<Sent(LeafMsgs[t.leaf].addr.chars, LeafMsgs[t.leaf].args)>>
    ELSE LeavesAll(t.kids)

LeavesAll(kids) ==
    IF kids = <<>> THEN <<>> ELSE Leaves(Head(kids)) \o LeavesAll(Tail(kids))

\* buffer and size are the payload of the pbuf chain until udpRecvCallback
\* has copied it
InitDispatch ==
    /\ hTry \in Trees
    /\ buffer = Encode(hTry) /\ size = Len(buffer)
    /\ msg = OSCMessage_clear /\ hArgs = <<>> /\ hAddr = NoAddr
    /\ op = "init" /\ ret = TRUE /\ nCalls = 0 /\ pc = "recv"
    /\ outBuffer = <<>> /\ maxSize = 0
    /\ bundle = OSCBundle_clear /\ hMsgs = <<>>
    /\ view = OSCMessageView_clear
    /\ pattern = NullPtr /\ stack = <<>> /\ calls = <<>>

\* totalLen after the copy loop of lines 930-937
TotalLen(n) == IF n > MAX_MESSAGE_SIZE THEN MAX_MESSAGE_SIZE ELSE n

\* udpRecvCallback, the payload is a bundle: lines 926-942
RecvBundle ==
    /\ pc = "recv"
    /\ buffer' = Slice(buffer, 0, TotalLen(size)) /\ size' = TotalLen(size)
    /\ TotalLen(size) >= 8 /\ Slice(buffer, 0, 7) = BUNDLE_TAG
    /\ stack' = <<Frame(0, TotalLen(size))>>
    /\ op' = "parseBundle" /\ pc' = "dispatch"
    /\ UNCHANGED <<msg, hAddr, hArgs, hTry, ret, outBuffer, maxSize, bundle, hMsgs,
                   view, pattern, calls, nCalls>>

\* udpRecvCallback, the payload is a single message: lines 926-949
RecvMessage ==
    /\ pc = "recv"
    /\ buffer' = Slice(buffer, 0, TotalLen(size)) /\ size' = TotalLen(size)
    /\ ~(TotalLen(size) >= 8 /\ Slice(buffer, 0, 7) = BUNDLE_TAG)
    /\ LET r == parse(Slice(buffer, 0, TotalLen(size)), TotalLen(size))
       IN  /\ view' = r.view /\ ret' = r.ret
           /\ calls' = IF r.ret
                       THEN Append(calls, Observe(Slice(buffer, 0, TotalLen(size)), r.view))
                       ELSE calls
    /\ op' = "parse" /\ pc' = "done"
    /\ UNCHANGED <<msg, hAddr, hArgs, hTry, outBuffer, maxSize, bundle, hMsgs,
                   pattern, stack, nCalls>>

NextDispatch ==
    \/ RecvBundle \/ RecvMessage
    \/ ParseBundleReturn \/ ParseBundleNested \/ ParseBundleMessage

SpecDispatch == InitDispatch /\ [][NextDispatch]_vars

\* C9: for a well-formed datagram the callbacks made so far are, at every
\* moment, the first leaf messages of its depth-first, left-to-right
\* traversal, and once the dispatcher is done every leaf message has had
\* exactly one callback, in that order.
C9_DispatchOrder ==
    LET expected == Leaves(hTry)
    IN  /\ Len(calls) <= Len(expected)
        /\ calls = SubSeq(expected, 1, Len(calls))
        /\ pc = "done" => calls = expected

\* a bundle with a message, a nested bundle of one message and a message after
\* it was dispatched
C9_Witness ==
    /\ pc = "done" /\ Len(calls) = 3
    /\ hTry = Bundle(<<Leaf(1), Bundle(<<Leaf(2)>>), Leaf(1)>>)

---------------------------------------------------------------------------
(* Datagrams as any sender can make them, well formed or not: SpecWire.    *)

\* how many elements, nested ones included, the bundle of a datagram holds
MaxItems == 3

\* An element of a bundle on the wire.  good: a size prefix and the message
\* "/a" with an int.  junk: a size prefix and the 4 bytes "abcd", which are
\* no message.  zero, neg, big: a size prefix of 0, of -4, of INT_MAX.
\* frag: 2 bytes, too few for a size prefix.  bundle: a size prefix, "#bundle",
\* the byte tag8, a timetag and the elements kids.  under: how many bundles
\* are around a datagram, each with the next as its only element.
Item(kind) == [kind |-> kind, tag8 |-> 0, kids |-> <<>>, under |-> 0]

Nest(tag8, kids) == [kind |-> "bundle", tag8 |-> tag8, kids |-> kids, under |-> 0]

ItemKinds == {"good", "junk", "zero", "neg", "big", "frag"}

\* the byte after "#bundle": the NUL of the bundle magic, or '!'
Tag8s == {0, 33}

\* the elements of exactly n nodes, and the sequences of elements of m nodes
\* in all
RECURSIVE ItemsOf(_), ItemSeqsOf(_)
ItemsOf(n) ==
    (IF n = 1 THEN {Item(k) : k \in ItemKinds} ELSE {})
    \cup {Nest(t, f) : t \in Tag8s, f \in ItemSeqsOf(n - 1)}

ItemSeqsOf(m) ==
    IF m = 0 THEN {<<>>}
    ELSE UNION {{<<t>> \o f : t \in ItemsOf(k), f \in ItemSeqsOf(m - k)} : k \in 1..m}

\* how many parseBundle calls a datagram of MAX_MESSAGE_SIZE bytes can have
\* running at once: the outermost bundle takes 16 bytes, each one inside it
\* 20 with its size prefix
DeepestNesting == 1 + (MAX_MESSAGE_SIZE - 16) \div 20

\* an empty bundle under d bundles
Chain(d) == [Nest(0, <<>>) EXCEPT !.under = d]

\* the bytes e as the only element of a bundle that is the only element of a
\* bundle, and so on d times: d times "#bundle", NUL, a timetag and the size
\* of what follows, and then e
Under(e, d) ==
    [i \in 1..(20 * d) |->
        LET k == d - (i - 1) \div 20
            o == (i - 1) % 20
        IN  IF o < 16 THEN (BUNDLE_TAG \o <<0>> \o Immediately)[o + 1]
            ELSE swap_endian(LE32(Len(e) + 20 * (k - 1)))[o - 15]] \o e

\* the bytes of one element without its size prefix, and of a sequence of
\* elements
RECURSIVE Body(_), Wire(_)
Body(t) ==
    CASE t.kind = "good" -> Encode(Leaf(1))
      [] t.kind = "junk" -> <<97, 98, 99, 100>>
      [] t.kind = "bundle" -> BUNDLE_TAG \o <<t.tag8>> \o Immediately \o Wire(t.kids)
      [] OTHER -> <<>>

Wire(kids) ==
    IF kids = <<>> THEN <<>>
    ELSE LET t == Head(kids)
             e == Body(t)
         IN  (CASE t.kind = "zero" -> swap_endian(LE32(0))
                [] t.kind = "neg" -> swap_endian(LE32(-4))
                [] t.kind = "big" -> swap_endian(LE32(INT_MAX))
                [] t.kind = "frag" -> <<0, 0>>
                [] OTHER -> swap_endian(LE32(Len(e))) \o e)
             \o Wire(Tail(kids))

\* The datagrams received: a bundle of up to MaxItems elements, a message
\* after "#bundle!" and a timetag, a message, 4 bytes that are no message, a
\* bundle nested as deep as a datagram can hold, and one nested deeper, which
\* the copy loop truncates.
Datagrams ==
    UNION {{Nest(0, f) : f \in ItemSeqsOf(m)} : m \in 0..MaxItems}
    \cup {Nest(33, <<Item("good")>>), Item("good"), Item("junk")}
    \cup {Chain(DeepestNesting - 1), Chain(DeepestNesting)}

\* buffer and size are the payload of the pbuf chain until udpRecvCallback
\* has copied it
InitWire ==
    /\ hTry \in Datagrams
    /\ buffer = Under(Body(hTry), hTry.under) /\ size = Len(buffer)
    /\ msg = OSCMessage_clear /\ hArgs = <<>> /\ hAddr = NoAddr
    /\ op = "init" /\ ret = TRUE /\ nCalls = 0 /\ pc = "recv"
    /\ outBuffer = <<>> /\ maxSize = 0
    /\ bundle = OSCBundle_clear /\ hMsgs = <<>>
    /\ view = OSCMessageView_clear
    /\ pattern = NullPtr /\ stack = <<>> /\ calls = <<>>

SpecWire == InitWire /\ [][NextDispatch]_vars

\* The callbacks a sequence of elements is due when every element of a bad
\* size field ends the walk of its bundle.  stopAtJunk tells whether an
\* element that is no message ends it too.  A "bundle" element stands for one
\* the dispatcher walks as a nested bundle.
RECURSIVE Due(_, _)
Due(kids, stopAtJunk) ==
    IF kids = <<>> THEN <<>>
    ELSE LET t == Head(kids)
         IN  CASE t.kind = "good" ->
                    Leaves(Leaf(1)) \o Due(Tail(kids), stopAtJunk)
               [] t.kind = "junk" ->
                    IF stopAtJunk THEN <<>> ELSE Due(Tail(kids), stopAtJunk)
               [] t.kind = "bundle" ->
                    Due(t.kids, stopAtJunk) \o Due(Tail(kids), stopAtJunk)
               [] OTHER -> <<>>

\* the callbacks due for a datagram
DueOf(t, stopAtJunk) ==
    IF t.kind = "bundle" THEN Due(t.kids, stopAtJunk) ELSE Due(<<t>>, stopAtJunk)

\* C11 as stated: the walk of a bundle ends without further callbacks at the
\* first element whose size field is missing, non-positive or larger than
\* what remains, and also at the first element that fails to parse as a
\* message; the callbacks of the elements before it stand.
C11_Original ==
    /\ Len(calls) <= Len(DueOf(hTry, TRUE))
    /\ calls = SubSeq(DueOf(hTry, TRUE), 1, Len(calls))
    /\ pc = "done" => calls = DueOf(hTry, TRUE)

\* C11 amended: the walk of a bundle ends without further callbacks at the
\* first element whose size field is missing, non-positive or larger than
\* what remains; an element that fails to parse as a message gets no
\* callback, and the walk goes on with the element after it.  The callbacks
\* of the elements before stand.
C11_Amended ==
    /\ Len(calls) <= Len(DueOf(hTry, FALSE))
    /\ calls = SubSeq(DueOf(hTry, FALSE), 1, Len(calls))
    /\ pc = "done" => calls = DueOf(hTry, FALSE)

\* a message, then an element of size 0, then a message: one callback
C11_Witness ==
    /\ pc = "done" /\ Len(calls) = 1
    /\ hTry = Nest(0, <<Item("good"), Item("zero"), Item("good")>>)

\* C12: an element is walked as a nested bundle only if its first 8 bytes are
\* "#bundle" and a NUL: every parseBundle call made for an element of a
\* bundle has these 8 bytes at the start of its buffer.  (An element that
\* starts with "#bundle" and another byte is to be parsed as a message.)
C12_NestedIffMagic ==
    \A k \in 2..Len(stack) : Slice(buffer, stack[k].base, 8) = BUNDLE_TAG \o <<0>>

\* C13: the dispatcher enforces a maximum nesting depth of its own: a limit
\* that is ever enforced is below the DeepestNesting levels the size of a
\* datagram permits, so fewer than DeepestNesting parseBundle calls run at
\* any one time.
C13_DepthLimited == Len(stack) < DeepestNesting

\* no datagram has arrived
InitIdle ==
    /\ hTry = <<>> /\ buffer = <<>> /\ size = 0
    /\ msg = OSCMessage_clear /\ hArgs = <<>> /\ hAddr = NoAddr
    /\ op = "init" /\ ret = TRUE /\ nCalls = 0 /\ pc = "idle"
    /\ outBuffer = <<>> /\ maxSize = 0
    /\ bundle = OSCBundle_clear /\ hMsgs = <<>>
    /\ view = OSCMessageView_clear
    /\ pattern = NullPtr /\ stack = <<>> /\ calls = <<>>

\* lwIP calls udpRecvCallback with a datagram, lines 913-914
Arrive ==
    /\ pc = "idle"
    /\ \E t \in Datagrams :
          /\ hTry' = t
          /\ buffer' = Under(Body(t), t.under) /\ size' = Len(buffer')
    /\ pc' = "recv"
    /\ UNCHANGED <<msg, hAddr, hArgs, op, ret, outBuffer, maxSize, bundle, hMsgs,
                   view, pattern, stack, calls, nCalls>>

NextWire == Arrive \/ NextDispatch

\* The flow of control of a step of NextDispatch: what it does to pc and to
\* stack.  No branch of udpRecvCallback or parseBundle depends on what parse
\* returns; line 982 adds elemSize to pos after a failed parse as after a
\* callback.
DispatchControl ==
    \/ /\ pc = "recv"
       /\ IF TotalLen(size) >= 8 /\ Slice(buffer, 0, 7) = BUNDLE_TAG
          THEN pc' = "dispatch" /\ stack' = <<Frame(0, TotalLen(size))>>
          ELSE pc' = "done" /\ stack' = stack
    \/ /\ pc = "dispatch"
       /\ ~HasElem(Top) \/ Breaks(Top)
       /\ IF Len(stack) = 1
          THEN stack' = <<>> /\ pc' = "done"
          ELSE LET caller == stack[Len(stack) - 1]
               IN  /\ stack' = SubSeq(stack, 1, Len(stack) - 2)
                                \o <<[caller EXCEPT !.pos = @ + caller.elem, !.elem = 0]>>
                   /\ pc' = pc
    \/ /\ pc = "dispatch"
       /\ HasElem(Top) /\ ~Breaks(Top)
       /\ stack' = SubSeq(stack, 1, Len(stack) - 1) \o
                     IF IsBundle(Top.base + Top.pos + 4, ElemSize(Top))
                     THEN <<[Top EXCEPT !.pos = @ + 4, !.elem = ElemSize(Top)],
                            Frame(Top.base + Top.pos + 4, ElemSize(Top))>>
                     ELSE <<[Top EXCEPT !.pos = @ + 4 + ElemSize(Top)]>>
       /\ pc' = pc

\* udpRecvCallback runs to its end once lwIP has called it, and parseBundle
\* within it: the code has no wait and no other thread to yield to.  The
\* fairness is on the flow of control of the dispatcher's steps.
SpecWireFair == InitIdle /\ [][NextWire]_vars /\ WF_<<pc, stack>>(DispatchControl)

\* C14: the dispatch of every received datagram, well formed or not, ends;
\* on the way every step that stays within one parseBundle call moves its
\* read position forward, and every nested parseBundle call is for fewer
\* bytes than the call around it.
C14_Terminates ==
    /\ (pc = "recv") ~> (pc = "done")
    /\ [][(pc = "dispatch" /\ pc' = "dispatch" /\ Len(stack') = Len(stack))
          => stack'[Len(stack')].pos > Top.pos]_vars
    /\ [](\A k \in 2..Len(stack) : stack[k].size < stack[k - 1].size)
    /\ [][<<pc, stack>>' # <<pc, stack>> => (pc = "idle" \/ DispatchControl)]_vars

\* the dispatch of a bundle ended that holds a nested bundle with an element
\* of negative size, and after it an element of size zero
C14_Witness ==
    /\ pc = "done" /\ calls = <<>>
    /\ hTry = Nest(0, <<Nest(0, <<Item("neg")>>), Item("zero")>>)

---------------------------------------------------------------------------
(* addBlob() with any int32_t as its size: SpecBlob.                       *)

\* how many addBlob calls one run makes (after the calls that made its
\* initial state)
MaxBlobs == 2

\* the sizes a caller passes
BlobSizes == {0, 3, -1, -4, -6, -8, INT_MIN, INT_MAX}

\* the object data points to: size bytes, or one byte where size is no
\* length an object has
BlobData(n) ==
    IF n >= 0 /\ n <= MAX_ARG_BUFFER_SIZE THEN [i \in 1..n |-> 1 + (i % 255)] \o <<>>
    ELSE <<1>>

\* the values of the bytes behind the object data points to
Unknown == {0, 255}

\* The memcpy of line 277 has the count static_cast<std::size_t>(size): for a
\* size < 0 that is 2^32 + size >= 2^31 bytes, more than the object at data
\* and the array mArgBuffer have.  The call is reached when canAddArg let the
\* wrapped sum 4 + paddedDataLen pass.
addBlobUndefined(m, blobSize) ==
    blobSize < 0 /\ canAddArg(m, SizeAdd(4, SizeAlign4(blobSize)))

\* What a call of addBlob can do.  Where every step is defined, what addBlob
\* says.  Else the copy faults (fault), or it ends, having filled mArgBuffer
\* from mArgBufferSize on with the bytes at data and behind it, and with them
\* the members behind mArgBuffer: the call goes on at line 278 with
\* mArgBufferSize as it was or as overwritten, adds size and pads.  oob: bytes
\* outside mArgBuffer were written.
addBlobOutcomes(m, data, blobSize) ==
    IF ~addBlobUndefined(m, blobSize)
    THEN {[ret |-> addBlob(m, data, blobSize).ret,
           msg |-> addBlob(m, data, blobSize).msg, fault |-> FALSE, oob |-> FALSE]}
    ELSE LET m1 == PutArg(m, CH_b, swap_endian(LE32(blobSize)))
             room == MAX_ARG_BUFFER_SIZE - m1.mArgBufferSize
             copied(u) == Slice(data \o [i \in 1..room |-> u], 0, room)
             after(u, n) == [m1 EXCEPT
                               !.mArgBuffer = Write(@, m1.mArgBufferSize, copied(u)),
                               !.mArgBufferSize = SizeAlign4(SizeAdd(n, blobSize))]
         IN  {[ret |-> FALSE, msg |-> after(u, m1.mArgBufferSize),
               fault |-> TRUE, oob |-> TRUE] : u \in Unknown}
             \cup {[ret |-> TRUE, msg |-> after(u, m1.mArgBufferSize),
                    fault |-> FALSE, oob |-> TRUE] : u \in Unknown}
             \cup {[ret |-> TRUE, msg |-> after(u, I32(<<u, u, u, u>>)),
                    fault |-> FALSE, oob |-> TRUE] : u \in Unknown}

\* addBlob(data, size) called; after a fault nothing runs any more
AddBlobSized ==
    /\ pc = "build" /\ nCalls < MaxBlobs
    /\ \E n \in BlobSizes : \E o \in addBlobOutcomes(msg, BlobData(n), n) :
         /\ msg' = o.msg /\ ret' = o.ret
         /\ pc' = IF o.fault THEN "fault" ELSE pc
         /\ hTry' = [size |-> n, before |-> msg, oob |-> o.oob]
         /\ hArgs' = IF o.ret THEN Append(hArgs, BlobArg(BlobData(n))) ELSE hArgs
    /\ op' = "addBlob" /\ nCalls' = nCalls + 1
    /\ UNCHANGED <<hAddr, outBuffer, maxSize, bundle, hMsgs, view, buffer, size,
                   pattern, stack, calls>>

NextBlob == AddBlobSized \/ Clear

SpecBlob == Init /\ [][NextBlob]_vars

\* C15: for every int32_t size, addBlob(data, size) either returns false and
\* leaves the builder as it was, or returns true with size >= 0, one 'b' tag
\* more and 4 + roundUp4(size) argument bytes more, within the capacity of
\* the argument buffer; the argument length does not go down, and no byte
\* outside the argument buffer is written.
C15_BlobSafe ==
    op = "addBlob" =>
        /\ pc # "fault" /\ ~hTry.oob
        /\ ~ret => msg = hTry.before
        /\ ret => /\ hTry.size >= 0
                  /\ msg.mTypeTagCount = hTry.before.mTypeTagCount + 1
                  /\ msg.mTypeTags[msg.mTypeTagCount] = CH_b
                  /\ msg.mArgBufferSize
                       = hTry.before.mArgBufferSize + 4 + RoundUp4(hTry.size)
                  /\ msg.mArgBufferSize <= MAX_ARG_BUFFER_SIZE

============================================================================
